---- MODULE Spec2Model ----
(***************************************************************************)
(* TranslationContext of iffycan-i18n, in its two variants:                *)
(*   "fetcher"  - src/unnamed/part_000: configure({default_locale,         *)
(*                fetcher}); candidates [x.substr(0,2), default_locale]    *)
(*   "basepath" - src/src/i18n.ts: configure({langpack_basepath}); one     *)
(*                candidate, a date-locale import between commit and emit, *)
(*                separators taken from the NUMBER_FORMATS table           *)
(* Locale strings are sequences of characters, so that substr(0, 2) is     *)
(* computed.  A language pack is immutable and is identified by the locale *)
(* code the loader was asked for; its content is PackDir, PackTag or       *)
(* PackNumberRecord, PackMessages of that code.  <<>> is an unset field.   *)
(* The loader resolves with a well-typed ILangPack or rejects.  configure  *)
(* is called once, before setLocale and localizeThisHTMLPage.  The         *)
(* listeners on localechanged are the ones localizeThisHTMLPage registers  *)
(* and, in SpecListener, one listener of the application that throws;      *)
(* whether EventSource.emit lets that exception out is not decided by this *)
(* repository, so both outcomes are taken.                                 *)
(* JavaScript runs each handler to its next await without interruption:    *)
(* one action is one such run.                                             *)
(***************************************************************************)
EXTENDS Integers, Sequences, FiniteSets, TLC

\* ---- bounds ----
MaxCalls == 2      \* setLocale invocations in one behaviour
MaxPages == 1      \* public localizeThisHTMLPage invocations in one behaviour

\* ---- values ----
Undefined == <<>>
FR    == <<"f", "r">>
EN    == <<"e", "n">>
FRCA  == <<"f", "r", "-", "C", "A">>
ENUS  == <<"e", "n", "-", "U", "S">>
D     == <<"d">>
Requests    == {FRCA, EN, D}
DefaultArgs == {ENUS, FR}
Variants    == {"fetcher", "basepath"}

NoDft == "undefined"
Throw == "Error: Attmpting to use sss() before setting the locale"
Keys  == {"Hi", "zz"}
Dfts  == {NoDft, "dflt"}

\* ---- the language packs the loader can deliver ----
PackDir(code) == IF code = D THEN "rtl" ELSE "ltr"

PackTag(code) ==
  CASE code = FR -> "space-comma"
    [] code = D  -> "period-comma"
    [] OTHER     -> ""

PackMessages(code) ==
  CASE code = FR -> [k \in {"k1", "Hi"} |-> [val |-> IF k = "k1" THEN "Clef" ELSE "Salut"]]
    [] code = D  -> [k \in {"Hi"} |-> [val |-> "Hallo"]]
    [] OTHER     -> [k \in {} |-> [val |-> ""]]

\* part_000: ILangPack.numbers is a NumberFormat record
PackNumberRecord(code) ==
  CASE PackTag(code) = "space-comma"  -> [thousands |-> " ", decimal |-> ",", decimal_places |-> 2]
    [] PackTag(code) = "period-comma" -> [thousands |-> ".", decimal |-> ",", decimal_places |-> 2]
    [] OTHER                          -> [thousands |-> ",", decimal |-> ".", decimal_places |-> 2]

\* i18n.ts: the table as the module defines it
NUMBER_FORMATS_0 ==
  [t \in {"", "comma-period", "period-comma", "space-comma"} |->
     CASE t = "period-comma" -> [group |-> ".", group_regex |-> "\\.", decimal |-> ",", decimal_regex |-> ","]
       [] t = "space-comma"  -> [group |-> " ", group_regex |-> "[ ]", decimal |-> ",", decimal_regex |-> ","]
       [] OTHER              -> [group |-> ",", group_regex |-> ",", decimal |-> ".", decimal_regex |-> "\\."]]

number_format_0 == [thousands |-> ",", decimal |-> ".", decimal_places |-> 2]

Document_0 == << [key |-> "k1", text |-> "dflt"], [key |-> "", text |-> "Hi"] >>

VARIABLES
  variant,          \* which of the two source files runs
  configured,       \* fetcher / langpack_basepath has been stored
  default_arg,      \* the default_locale argument configure received
  default_locale,   \* TranslationContext.default_locale (part_000)
  _langpack,        \* TranslationContext._langpack, by the code it was loaded for
  _locale,          \* TranslationContext._locale
  number_format,    \* TranslationContext.number_format (part_000)
  NUMBER_FORMATS,   \* the table; number_seps is its '' entry (i18n.ts)
  momentLocale,     \* the locale activated in moment (i18n.ts)
  listeners,        \* number of listeners localizeThisHTMLPage registered
  docDir,           \* document.documentElement dir attribute
  elems,            \* the [data-translate] elements
  calls,            \* the setLocale invocations: position and history
  ncalls,           \* setLocale invocations so far
  npages,           \* public localizeThisHTMLPage invocations so far
  notes,            \* localechanged emissions, in order
  lastSss,          \* the last sss call and its outcome
  lastGnf,          \* outcome of the last getNumberFormat call
  lastPage,         \* outcome of the last finished localizeThisHTMLPage call
  thrower,          \* the application registered a listener that throws
  watched,          \* localizeThisHTMLPage calls without skipwatch that resolved
  commitLog         \* the commits of _langpack / _locale, in order

vars == << variant, configured, default_arg, default_locale, _langpack, _locale,
           number_format, NUMBER_FORMATS, momentLocale, listeners, docDir, elems,
           calls, ncalls, npages, notes, lastSss, lastGnf, lastPage, thrower,
           watched, commitLog >>

Min(a, b) == IF a < b THEN a ELSE b

\* ---- pure helpers ----
Substr3(x) == SubSeq(x, 1, Min(3, Len(x)))
\* x.substr(0, 2)
Substr2(x) == SubSeq(x, 1, Min(2, Len(x)))

TotryDefaultFirst(x) ==
  IF variant = "fetcher" THEN << default_locale, Substr2(x) >> ELSE << Substr2(x) >>
\* let totry = [x.substr(0, 2), this.default_locale]  /  [x.substr(0, 2)]
Totry(x) ==
  IF variant = "fetcher" THEN << Substr2(x), default_locale >> ELSE << Substr2(x) >>

\* Object.assign(target, source) on records
ObjectAssign(target, source) ==
  [f \in DOMAIN target \cup DOMAIN source |->
     IF f \in DOMAIN source THEN source[f] ELSE target[f]]

SssNoGuard(pack, key, dft) ==
  LET present == key \in DOMAIN PackMessages(pack)
  IN  IF dft = NoDft
      THEN IF present THEN PackMessages(pack)[key].val ELSE key
      ELSE IF present THEN PackMessages(pack)[key].val ELSE dft
SssDefaultFirst(pack, key, dft) ==
  IF pack = Undefined THEN Throw
  ELSE LET present == key \in DOMAIN PackMessages(pack)
       IN  IF dft = NoDft
           THEN IF present THEN PackMessages(pack)[key].val ELSE key
           ELSE dft
\* sss(key, dft) on the pack `pack`; keys are strings
Sss(pack, key, dft) ==
  IF pack = Undefined THEN Throw
  ELSE LET present == key \in DOMAIN PackMessages(pack)
       IN  IF dft = NoDft
           THEN IF present THEN PackMessages(pack)[key].val ELSE key
           ELSE IF present THEN PackMessages(pack)[key].val ELSE dft

\* getNumberFormat() reads this.langpack.numbers: a TypeError without a pack
GetNumberFormatThrows(pack) == pack = Undefined

\* getNumberFormat() with a pack
GetNumberFormat(pack, table) ==
  IF variant = "fetcher" THEN PackNumberRecord(pack) ELSE table[PackTag(pack)]

\* the forEach of localizeThisHTMLPage on one element
LocalizeElem(pack, e) ==
  LET trans_id == IF e.key = "" THEN e.text ELSE e.key
      out      == Sss(pack, trans_id, e.text)
  IN  IF out = Throw THEN e ELSE [e EXCEPT !.text = out]

Scan(pack, es) == [i \in DOMAIN es |-> LocalizeElem(pack, es[i])]

RECURSIVE ScanTimes(_, _, _)
ScanTimes(n, pack, es) == IF n = 0 THEN es ELSE ScanTimes(n - 1, pack, Scan(pack, es))

IdleCall == [pc |-> "idle", x |-> Undefined, totry |-> << >>, i |-> 0, page |-> "none",
             loads |-> << >>, outcomes |-> << >>, commits |-> << >>, result |-> "none",
             date |-> "none", lthrows |-> 0]

CallIds == 1 .. MaxCalls

InitContext ==
  /\ variant \in Variants
  /\ configured = FALSE
  /\ default_arg = Undefined
  /\ default_locale = Undefined
  /\ _langpack = Undefined
  /\ _locale = Undefined
  /\ number_format = number_format_0
  /\ NUMBER_FORMATS = NUMBER_FORMATS_0
  /\ momentLocale = Undefined
  /\ listeners = 0
  /\ docDir = ""
  /\ elems = Document_0
  /\ calls = [c \in CallIds |-> IdleCall]
  /\ ncalls = 0
  /\ npages = 0
  /\ notes = << >>
  /\ lastSss = [key |-> "", dft |-> NoDft, out |-> "", pack |-> Undefined,
                committed |-> FALSE]
  /\ lastGnf = "none"
  /\ lastPage = "none"
  /\ watched = 0
  /\ commitLog = << >>

Init == InitContext /\ thrower = FALSE

\* the application has put a throwing listener on localechanged
InitListener == InitContext /\ thrower = TRUE

\* ---- configure ----
Configure(d) ==
  /\ ~configured
  /\ configured' = TRUE
  /\ default_arg' = IF variant = "fetcher" THEN d ELSE Undefined
  /\ default_locale' = IF variant = "fetcher" THEN Substr2(d) ELSE Undefined
  /\ UNCHANGED << variant, _langpack, _locale, number_format, NUMBER_FORMATS,
                  momentLocale, listeners, docDir, elems, calls, ncalls, npages,
                  notes, lastSss, lastGnf, lastPage, thrower, watched, commitLog >>

\* ---- setLocale ----
\* the call record of a fresh setLocale(x), run up to its first await
StartedCall(x, page) ==
  [pc |-> "loading", x |-> x, totry |-> Totry(x), i |-> 1, page |-> page,
   loads |-> << Totry(x)[1] >>, outcomes |-> << >>, commits |-> << >>,
   result |-> "pending", date |-> "none", lthrows |-> 0]

SetLocale(x) ==
  /\ configured
  /\ ncalls < MaxCalls
  /\ ncalls' = ncalls + 1
  /\ calls' = [calls EXCEPT ![ncalls + 1] = StartedCall(x, "none")]
  /\ UNCHANGED << variant, configured, default_arg, default_locale, _langpack,
                  _locale, number_format, NUMBER_FORMATS, momentLocale, listeners,
                  docDir, elems, npages, notes, lastSss, lastGnf, lastPage,
                  thrower, watched, commitLog >>

CommittedLocaleRaw(c) == calls[c].x
\* this._locale = locale
CommittedLocale(c) == calls[c].totry[calls[c].i]

NoBreak(call) ==
  IF call.i < Len(call.totry)
  THEN [call EXCEPT !.pc = "loading", !.i = call.i + 1,
                    !.loads = Append(call.loads, call.totry[call.i + 1])]
  ELSE [call EXCEPT !.pc = "done", !.result = "resolved"]
\* break: the loop ends and the async function resolves
Break(call) == [call EXCEPT !.pc = "done", !.result = "resolved"]

\* emit threw inside the try: the outer catch logs and the for loop takes the
\* next candidate
AfterListenerThrow(call) ==
  LET caught == [call EXCEPT !.lthrows = call.lthrows + 1]
  IN  IF call.i < Len(call.totry)
      THEN [caught EXCEPT !.pc = "loading", !.i = call.i + 1,
                          !.loads = Append(call.loads, call.totry[call.i + 1])]
      ELSE [caught EXCEPT !.pc = "done", !.result = "resolved"]

\* what emit can do with the throwing listener: keep the exception (FALSE) or
\* let it out (TRUE)
Propagations == IF thrower THEN BOOLEAN ELSE {FALSE}

EmittedLocaleOfCall(c, loc) == calls[c].totry[calls[c].i]
\* the payload {locale: this._locale}
EmittedLocale(c, loc) == loc

ListenersAfterEmitRewatch(n) == n + n
\* the rescans pass skipwatch: true, so they register nothing
ListenersAfterEmit(n) == n

\* the numbers sub-step and localechanged.emit({locale: this._locale}), with
\* the registered listeners run inside emit; pk and loc are this.langpack and
\* this._locale at that moment.  The throwing listener was registered first:
\* when its exception gets out of emit the rescans do not run.
NumbersAndEmit(c, pk, loc, prop) ==
  /\ number_format' = IF variant = "fetcher"
                      THEN ObjectAssign(number_format, GetNumberFormat(pk, NUMBER_FORMATS))
                      ELSE number_format
  /\ NUMBER_FORMATS' = IF variant = "basepath"
                       THEN [NUMBER_FORMATS EXCEPT
                               ![""] = ObjectAssign(NUMBER_FORMATS[""],
                                                    GetNumberFormat(pk, NUMBER_FORMATS))]
                       ELSE NUMBER_FORMATS
  /\ notes' = Append(notes, [locale |-> EmittedLocale(c, loc), by |-> c,
                             heard |-> IF prop THEN 0 ELSE listeners])
  /\ docDir' = IF listeners > 0 /\ ~prop THEN PackDir(pk) ELSE docDir
  /\ elems' = IF prop THEN elems ELSE ScanTimes(listeners, pk, elems)
  /\ listeners' = IF prop THEN listeners ELSE ListenersAfterEmit(listeners)

\* the awaited load of the current candidate resolves
LoadResolve(c, prop) ==
  /\ calls[c].pc = "loading"
  /\ prop => variant = "fetcher"
  /\ _langpack' = calls[c].totry[calls[c].i]
  /\ _locale' = CommittedLocale(c)
  /\ commitLog' = Append(commitLog, [by |-> c, locale |-> CommittedLocale(c)])
  /\ LET call == [calls[c] EXCEPT !.outcomes = Append(@, "ok"),
                                  !.commits = Append(@, CommittedLocale(c))]
     IN  IF variant = "fetcher"
         THEN /\ NumbersAndEmit(c, _langpack', _locale', prop)
              /\ calls' = [calls EXCEPT ![c] = IF prop THEN AfterListenerThrow(call)
                                                       ELSE Break(call)]
         ELSE /\ calls' = [calls EXCEPT ![c] = [call EXCEPT !.pc = "date"]]
              /\ UNCHANGED << number_format, NUMBER_FORMATS, notes, docDir, elems,
                              listeners >>
  /\ UNCHANGED << variant, configured, default_arg, default_locale, momentLocale,
                  ncalls, npages, lastSss, lastGnf, lastPage, thrower, watched >>

DateSettleAbort(c, ok, prop) ==
  /\ calls[c].pc = "date"
  /\ IF ok
     THEN /\ momentLocale' = _locale
          /\ NumbersAndEmit(c, _langpack, _locale, prop)
          /\ calls' = [calls EXCEPT ![c] = Break([calls[c] EXCEPT !.date = "ok"])]
     ELSE /\ calls' = [calls EXCEPT ![c] =
                         [calls[c] EXCEPT !.date = "failed", !.pc = "done",
                                          !.result = "resolved"]]
          /\ UNCHANGED << momentLocale, number_format, NUMBER_FORMATS, notes,
                          docDir, elems, listeners >>
  /\ UNCHANGED << variant, configured, default_arg, default_locale, _langpack,
                  _locale, ncalls, npages, lastSss, lastGnf, lastPage, thrower,
                  watched, commitLog >>
\* the awaited import of moment/locale/<locale> settles (i18n.ts): on success
\* moment.locale(this._locale), on failure the inner catch; then the numbers
\* sub-step and emit
DateSettle(c, ok, prop) ==
  /\ calls[c].pc = "date"
  /\ momentLocale' = IF ok THEN _locale ELSE momentLocale
  /\ NumbersAndEmit(c, _langpack, _locale, prop)
  /\ LET call == [calls[c] EXCEPT !.date = IF ok THEN "ok" ELSE "failed"]
     IN  calls' = [calls EXCEPT ![c] = IF prop THEN AfterListenerThrow(call)
                                               ELSE Break(call)]
  /\ UNCHANGED << variant, configured, default_arg, default_locale, _langpack,
                  _locale, ncalls, npages, lastSss, lastGnf, lastPage, thrower,
                  watched, commitLog >>

\* the catch block: log, and the for loop takes the next candidate
AfterFailure(call) ==
  LET failed == [call EXCEPT !.outcomes = Append(@, "fail")]
  IN  IF call.i < Len(call.totry)
      THEN [failed EXCEPT !.pc = "loading", !.i = call.i + 1,
                          !.loads = Append(call.loads, call.totry[call.i + 1])]
      ELSE [failed EXCEPT !.pc = "done", !.result = "resolved"]

LoadRejectRethrow(c) ==
  /\ calls[c].pc = "loading"
  /\ calls' = [calls EXCEPT ![c] = [calls[c] EXCEPT !.outcomes = Append(@, "fail"),
                                                     !.pc = "done",
                                                     !.result = "rejected"]]
  /\ UNCHANGED << variant, configured, default_arg, default_locale, _langpack,
                  _locale, number_format, NUMBER_FORMATS, momentLocale, listeners,
                  docDir, elems, ncalls, npages, notes, lastSss, lastGnf,
                  lastPage, thrower, watched, commitLog >>
LoadRejectClearing(c) ==
  /\ calls[c].pc = "loading"
  /\ calls' = [calls EXCEPT ![c] = AfterFailure(calls[c])]
  /\ _langpack' = Undefined
  /\ _locale' = Undefined
  /\ UNCHANGED << variant, configured, default_arg, default_locale,
                  number_format, NUMBER_FORMATS, momentLocale, listeners,
                  docDir, elems, ncalls, npages, notes, lastSss, lastGnf,
                  lastPage, thrower, watched, commitLog >>
\* the awaited load of the current candidate rejects
LoadReject(c) ==
  /\ calls[c].pc = "loading"
  /\ calls' = [calls EXCEPT ![c] = AfterFailure(calls[c])]
  /\ UNCHANGED << variant, configured, default_arg, default_locale, _langpack,
                  _locale, number_format, NUMBER_FORMATS, momentLocale, listeners,
                  docDir, elems, ncalls, npages, notes, lastSss, lastGnf,
                  lastPage, thrower, watched, commitLog >>

\* ---- sss, getNumberFormat ----
EverCommitted == \E c \in CallIds : calls[c].commits # << >>

CallSss(key, dft) ==
  /\ lastSss' = [key |-> key, dft |-> dft, out |-> Sss(_langpack, key, dft),
                 pack |-> _langpack, committed |-> EverCommitted]
  /\ UNCHANGED << variant, configured, default_arg, default_locale, _langpack,
                  _locale, number_format, NUMBER_FORMATS, momentLocale, listeners,
                  docDir, elems, calls, ncalls, npages, notes, lastGnf,
                  lastPage, thrower, watched, commitLog >>

CallGetNumberFormat ==
  /\ lastGnf' = IF GetNumberFormatThrows(_langpack) THEN "threw" ELSE "returned"
  /\ UNCHANGED << variant, configured, default_arg, default_locale, _langpack,
                  _locale, number_format, NUMBER_FORMATS, momentLocale, listeners,
                  docDir, elems, calls, ncalls, npages, notes, lastSss,
                  lastPage, thrower, watched, commitLog >>

\* ---- localizeThisHTMLPage ----
\* the body after the optional setLocale: this.langpack.dir throws without a
\* pack and the async function rejects
PageBody(skipwatch) ==
  IF _langpack = Undefined
  THEN /\ lastPage' = "rejected"
       /\ UNCHANGED << docDir, elems, listeners >>
  ELSE /\ lastPage' = "resolved"
       /\ docDir' = PackDir(_langpack)
       /\ elems' = Scan(_langpack, elems)
       /\ listeners' = IF skipwatch THEN listeners ELSE listeners + 1

\* the count of calls without skipwatch that ran to their end
WatchedAfter(skipwatch) ==
  IF ~skipwatch /\ _langpack # Undefined THEN watched + 1 ELSE watched

LocalizeThisHTMLPageAlways(x, skipwatch) ==
  /\ configured
  /\ npages < MaxPages
  /\ npages' = npages + 1
  /\ ncalls < MaxCalls
  /\ ncalls' = ncalls + 1
  /\ calls' = [calls EXCEPT ![ncalls + 1] =
                 StartedCall(x, IF skipwatch THEN "skip" ELSE "watch")]
  /\ UNCHANGED << docDir, elems, listeners, lastPage, watched >>
  /\ UNCHANGED << variant, configured, default_arg, default_locale, _langpack,
                  _locale, number_format, NUMBER_FORMATS, momentLocale, notes,
                  lastSss, lastGnf, thrower, commitLog >>
\* localizeThisHTMLPage(x, {skipwatch}) from the application
LocalizeThisHTMLPage(x, skipwatch) ==
  /\ configured
  /\ npages < MaxPages
  /\ npages' = npages + 1
  /\ IF _locale = Undefined
     THEN /\ ncalls < MaxCalls
          /\ ncalls' = ncalls + 1
          /\ calls' = [calls EXCEPT ![ncalls + 1] =
                         StartedCall(x, IF skipwatch THEN "skip" ELSE "watch")]
          /\ UNCHANGED << docDir, elems, listeners, lastPage, watched >>
     ELSE /\ PageBody(skipwatch)
          /\ watched' = WatchedAfter(skipwatch)
          /\ UNCHANGED << calls, ncalls >>
  /\ UNCHANGED << variant, configured, default_arg, default_locale, _langpack,
                  _locale, number_format, NUMBER_FORMATS, momentLocale, notes,
                  lastSss, lastGnf, thrower, commitLog >>

\* await this.setLocale(locale) returns in localizeThisHTMLPage
PageResume(c) ==
  /\ calls[c].pc = "done"
  /\ calls[c].page \in {"skip", "watch"}
  /\ calls' = [calls EXCEPT ![c] = [calls[c] EXCEPT !.page = "finished"]]
  /\ PageBody(calls[c].page = "skip")
  /\ watched' = WatchedAfter(calls[c].page = "skip")
  /\ UNCHANGED << variant, configured, default_arg, default_locale, _langpack,
                  _locale, number_format, NUMBER_FORMATS, momentLocale, ncalls,
                  npages, notes, lastSss, lastGnf, thrower, commitLog >>

Next ==
  \/ \E d \in DefaultArgs : Configure(d)
  \/ \E x \in Requests : SetLocale(x)
  \/ \E c \in CallIds, prop \in Propagations : LoadResolve(c, prop)
  \/ \E c \in CallIds : LoadReject(c)
  \/ \E c \in CallIds, ok \in BOOLEAN, prop \in Propagations : DateSettle(c, ok, prop)
  \/ \E k \in Keys, d \in Dfts : CallSss(k, d)
  \/ CallGetNumberFormat

\* the context used through configure, setLocale, sss and getNumberFormat
Spec == Init /\ [][Next]_vars

\* the same with a throwing listener on localechanged
SpecListener == InitListener /\ [][Next]_vars

NextPage ==
  \/ Next
  \/ \E x \in Requests, s \in BOOLEAN : LocalizeThisHTMLPage(x, s)
  \/ \E c \in CallIds : PageResume(c)

\* the context used by a renderer page as well
SpecPage == Init /\ [][NextPage]_vars

\* ---- properties ----
\* the first two characters of s (all of s when it is shorter)
Prefix2(s) == [i \in 1 .. Min(2, Len(s)) |-> s[i]]

AllFailed(call) == \A i \in DOMAIN call.outcomes : call.outcomes[i] = "fail"
SomeLoaded(call) == \E i \in DOMAIN call.outcomes : call.outcomes[i] = "ok"
NotesBy(c) == { i \in DOMAIN notes : notes[i].by = c }
Started == 1 .. ncalls

\* C1: with a default locale configured (part_000), the setLocale(x) call that
\* ends having loaded a candidate tried the first two characters of x first and
\* the default second, and leaves locale as the first of the two that loaded:
\* the two-character code if it loaded, else the default ("en" for "en-US").
C1_FirstLoadedCandidate ==
  [][\A c \in CallIds :
       (variant = "fetcher" /\ calls[c].pc = "loading" /\ calls'[c].pc = "done"
          /\ SomeLoaded(calls'[c]))
       => /\ calls'[c].loads[1] = Prefix2(calls'[c].x)
          /\ Len(calls'[c].loads) = 2 => calls'[c].loads[2] = Prefix2(default_arg)
          /\ _locale' = IF calls'[c].outcomes[1] = "ok"
                        THEN Prefix2(calls'[c].x)
                        ELSE Prefix2(default_arg)]_vars

C1_Witness ==
  /\ variant = "fetcher" /\ default_arg = ENUS /\ _locale = EN
  /\ \E c \in CallIds : /\ calls[c].x = FRCA /\ calls[c].pc = "done"
                        /\ calls[c].outcomes = << "ok" >> /\ calls[c].commits = << FR >>
  /\ \E c \in CallIds : /\ calls[c].x = FRCA /\ calls[c].pc = "done"
                        /\ calls[c].outcomes = << "fail", "ok" >>

\* C2: every step of a setLocale call none of whose candidates has loaded,
\* its last failure included, leaves the current locale, the current pack and
\* the separators as they are and emits no notification.
C2_AllFailedKeepsState ==
  [][\A c \in CallIds :
       (calls'[c] # calls[c] /\ AllFailed(calls'[c]))
       => /\ _locale' = _locale /\ _langpack' = _langpack
          /\ number_format' = number_format /\ NUMBER_FORMATS' = NUMBER_FORMATS
          /\ notes' = notes]_vars

C2_Witness ==
  /\ _locale = FR /\ _langpack = FR /\ Len(notes) = 1
  /\ \E c \in CallIds : /\ calls[c].pc = "done" /\ calls[c].outcomes # << >>
                        /\ AllFailed(calls[c])
                        /\ Len(calls[c].loads) = Len(calls[c].totry)

\* C3 (as claimed): every finished setLocale call that committed a pack has
\* emitted exactly one notification, emitted after its sub-steps, and that
\* notification carries the locale this call committed, overlapping calls
\* included.
C3_OneNotificationWithOwnLocale ==
  \A c \in CallIds :
    /\ NotesBy(c) # {} => calls[c].pc = "done"
    /\ (calls[c].pc = "done" /\ calls[c].commits # << >>)
       => /\ Cardinality(NotesBy(c)) = 1
          /\ \A i \in NotesBy(c) : notes[i].locale = calls[c].commits[1]

\* C4: at every suspension point and after every call the current pack is the
\* one loaded for exactly the current locale code, or both are unset.
C4_PackMatchesLocale == _langpack = _locale

C4_Witness ==
  /\ _locale = FR /\ _langpack = FR
  /\ \E c \in CallIds : calls[c].pc \in {"loading", "date"}
  /\ \E c \in CallIds : calls[c].pc = "done" /\ calls[c].commits # << >>

\* C5: sss called with an active pack returns the entry's val when the key is
\* in the pack's messages, the key itself when it is absent and no default was
\* given, and the default when it is absent and a default was given.
C5_SssLookup ==
  (lastSss.out # "" /\ lastSss.pack # Undefined)
  => LET msgs == PackMessages(lastSss.pack)
     IN  /\ lastSss.key \in DOMAIN msgs => lastSss.out = msgs[lastSss.key].val
         /\ (lastSss.key \notin DOMAIN msgs /\ lastSss.dft = NoDft)
            => lastSss.out = lastSss.key
         /\ (lastSss.key \notin DOMAIN msgs /\ lastSss.dft # NoDft)
            => lastSss.out = lastSss.dft

C5_Witness ==
  lastSss = [key |-> "Hi", dft |-> "dflt", out |-> "Salut", pack |-> FR,
             committed |-> TRUE]

\* C6: while no setLocale call has committed a pack, also after a call all of
\* whose candidates failed, every sss call throws the uninitialized error.
C6_SssThrowsUninitialized ==
  /\ ~EverCommitted => \A k \in Keys, d \in Dfts : Sss(_langpack, k, d) = Throw
  /\ (lastSss.out # "" /\ ~lastSss.committed) => lastSss.out = Throw

C6_Witness ==
  /\ lastSss.out = Throw /\ ~EverCommitted
  /\ \E c \in CallIds : /\ calls[c].pc = "done" /\ calls[c].outcomes # << >>
                        /\ AllFailed(calls[c])

\* C7: no setLocale call rejects: whatever the loader outcomes, a finished call
\* has resolved, and a call that finished without loading anything has asked
\* the loader for each of its candidates in turn.
C7_SetLocaleNeverRejects ==
  \A c \in Started :
    /\ calls[c].result # "rejected"
    /\ calls[c].pc = "done" => calls[c].result = "resolved"
    /\ (calls[c].pc = "done" /\ calls[c].commits = << >>)
       => /\ calls[c].loads = (IF variant = "fetcher"
                               THEN << Prefix2(calls[c].x), default_locale >>
                               ELSE << Prefix2(calls[c].x) >>)
          /\ Len(calls[c].outcomes) = Len(calls[c].loads)

C7_Witness ==
  \E c \in CallIds : /\ calls[c].outcomes = << "fail", "fail" >>
                     /\ calls[c].result = "resolved"

\* C8 (as claimed): setLocale, getNumberFormat, configure and
\* localizeThisHTMLPage never throw or reject, with or without a loaded pack.
C8_OnlySssFails ==
  /\ lastPage # "rejected"
  /\ lastGnf # "threw"
  /\ \A c \in CallIds : calls[c].result # "rejected"

\* C9: whenever the current locale is set it is the leading (at most) two
\* characters of a string passed to setLocale or of the default_locale argument
\* of configure.
C9_LocaleIsPrefix ==
  _locale # Undefined
  => \E s \in { calls[c].x : c \in Started } \cup { default_arg } :
       s # Undefined /\ _locale = Prefix2(s)

C9_Witness ==
  /\ _locale = EN /\ default_arg = ENUS
  /\ \A c \in Started : calls[c].x = FRCA
  /\ ncalls > 0

\* C10: a setLocale call that has emitted its notification is over: the last
\* candidate it asked the loader for is the one it committed, it committed only
\* that one, and it emitted once.
C10_StopsAtFirstSuccess ==
  \A c \in CallIds :
    /\ Len(calls[c].commits) <= 1
    /\ NotesBy(c) # {}
       => /\ calls[c].pc = "done"
          /\ Cardinality(NotesBy(c)) = 1
          /\ calls[c].commits # << >>
          /\ calls[c].loads[Len(calls[c].loads)] = calls[c].commits[1]
          /\ Len(calls[c].outcomes) = Len(calls[c].loads)

C10_Witness ==
  \E c \in CallIds : /\ variant = "fetcher" /\ NotesBy(c) # {}
                     /\ calls[c].loads = << FR >> /\ Len(calls[c].totry) = 2
                     /\ calls[c].totry[2] = EN

\* no setLocale call is under way
Quiescent == \A c \in CallIds : calls[c].pc \in {"idle", "done"}
TwoCommitted == Cardinality({ c \in CallIds : calls[c].commits # << >> }) >= 2

\* C11 (as claimed): once the setLocale calls are over, the separators of the
\* context are the ones defined for the numbers tag of the active pack; after
\* a 'period-comma' pack a pack with tag '' gives group ',' and decimal '.'.
C11_SeparatorsFollowPack ==
  (Quiescent /\ _langpack # Undefined)
  => IF variant = "basepath"
     THEN /\ NUMBER_FORMATS[""].group = NUMBER_FORMATS_0[PackTag(_langpack)].group
          /\ NUMBER_FORMATS[""].decimal = NUMBER_FORMATS_0[PackTag(_langpack)].decimal
     ELSE /\ number_format.thousands = PackNumberRecord(_langpack).thousands
          /\ number_format.decimal = PackNumberRecord(_langpack).decimal

\* the translation key of element i of the page as it was delivered
Key0(i) == IF Document_0[i].key = "" THEN Document_0[i].text ELSE Document_0[i].key

\* C12 (as claimed): once a locale change has been heard by a listener that
\* localizeThisHTMLPage registered and the setLocale calls are over, every
\* flagged element shows the active pack's translation of its translation key.
C12_RepaintShowsTranslation ==
  (Quiescent /\ notes # << >> /\ notes[Len(notes)].heard > 0)
  => \A i \in DOMAIN elems :
       elems[i].text = Sss(_langpack, Key0(i), Document_0[i].text)

\* C13 (as claimed): when two setLocale calls have committed and all calls are
\* over, the call that finished last (it emitted last) owns the current locale
\* and pack, and the last notification carries its locale.
C13_LastCompletedWins ==
  (Quiescent /\ TwoCommitted)
  => LET w == notes[Len(notes)].by
     IN  /\ _locale = calls[w].commits[1]
         /\ _langpack = calls[w].commits[1]
         /\ notes[Len(notes)].locale = calls[w].commits[1]

\* C13 (amended): when two setLocale calls have committed and all calls are
\* over, the call that committed last owns the current locale and pack, and
\* the last notification carries that locale.
C13_LastCommitWins ==
  (Quiescent /\ TwoCommitted)
  => LET w == commitLog[Len(commitLog)]
     IN  /\ _locale = w.locale
         /\ _langpack = w.locale
         /\ notes[Len(notes)].locale = w.locale

C13_Witness ==
  /\ Quiescent /\ TwoCommitted
  /\ notes[Len(notes)].by # commitLog[Len(commitLog)].by
  /\ _locale # calls[notes[Len(notes)].by].commits[1]

\* C14: when the date-locale import of a call fails, that step keeps the
\* committed locale and pack, still runs the numbers sub-step (the '' entry
\* takes the table entry of the pack's tag), emits the call's notification, and
\* ends the call without another load.
C14_SubStepFailureIsolated ==
  [][\A c \in CallIds :
       (calls[c].pc = "date" /\ calls'[c].date = "failed")
       => /\ _locale' = _locale /\ _langpack' = _langpack
          /\ commitLog' = commitLog
          /\ NUMBER_FORMATS'[""] = NUMBER_FORMATS[PackTag(_langpack)]
          /\ Len(notes') = Len(notes) + 1
          /\ notes'[Len(notes')].by = c
          /\ calls'[c].pc = "done" /\ calls'[c].result = "resolved"
          /\ calls'[c].loads = calls[c].loads]_vars

C14_Witness ==
  \E c \in CallIds : /\ calls[c].date = "failed" /\ calls[c].pc = "done"
                     /\ calls[c].commits = << D >> /\ _locale = D
                     /\ NotesBy(c) # {} /\ momentLocale = Undefined
                     /\ NUMBER_FORMATS[""].group = "."

C16_NoDuplicateCandidate ==
  \A c \in Started :
    /\ Len(calls[c].totry) = 2 => calls[c].totry[1] # calls[c].totry[2]
    /\ \A i, j \in DOMAIN calls[c].loads :
         i # j => calls[c].loads[i] # calls[c].loads[j]

\* C17: a localizeThisHTMLPage call starts a setLocale call, before it touches
\* the markup, exactly when no locale is active; with a locale active it starts
\* no load, emits nothing and leaves the locale and the pack as they are.
C17_SetLocaleOnlyWhenInactive ==
  [][npages' = npages + 1
     => IF _locale = Undefined
        THEN /\ ncalls' = ncalls + 1
             /\ calls'[ncalls'].pc = "loading"
             /\ calls'[ncalls'].page \in {"skip", "watch"}
             /\ calls'[ncalls'].loads = << Prefix2(calls'[ncalls'].x) >>
             /\ elems' = elems /\ docDir' = docDir
        ELSE /\ calls' = calls /\ ncalls' = ncalls
             /\ notes' = notes /\ commitLog' = commitLog
             /\ _locale' = _locale /\ _langpack' = _langpack]_vars

C17_Witness ==
  /\ npages = 1 /\ lastPage = "resolved" /\ _locale = FR
  /\ \A c \in CallIds : calls[c].page = "none"
  /\ Len(notes) = 1

\* C18: the listeners on the channel are as many as the localizeThisHTMLPage
\* calls without skipwatch that ran to their end; an emission leaves their
\* number as it is and is heard by each of them once.
C18_OneListenerPerWatchedCall ==
  [][/\ listeners' = watched'
     /\ Len(notes') > Len(notes)
        => /\ listeners' = listeners
           /\ notes'[Len(notes')].heard = listeners]_vars

C18_Witness ==
  /\ listeners = 1 /\ watched = 1
  /\ notes # << >> /\ notes[Len(notes)].heard = 1

\* C19 (as claimed): the number-format table keeps the entries it was defined
\* with.
C19_TableUnchanged == NUMBER_FORMATS = NUMBER_FORMATS_0

\* C20: once set, the current pack and the current locale are never unset
\* again, and an sss call made after a commit does not throw.
C20_InitializationMonotonic ==
  [][/\ _langpack # Undefined => _langpack' # Undefined
     /\ _locale # Undefined => _locale' # Undefined
     /\ (EverCommitted /\ lastSss' # lastSss) => lastSss'.out # Throw]_vars

C20_Witness ==
  /\ _locale # Undefined /\ _langpack # Undefined
  /\ lastSss.committed /\ lastSss.out = "zz"
  /\ \E c, e \in CallIds :
       /\ calls[c].commits # << >> /\ calls[c].pc = "done"
       /\ calls[e].pc = "done" /\ calls[e].outcomes # << >> /\ AllFailed(calls[e])
====
